---- MODULE Spec2Model ----
(***************************************************************************)
(* The aw-core event store: the four storage strategies of                 *)
(* aw_datastore/storage_strategies.py (in-memory, flat file, TinyDB,       *)
(* MongoDB) behind one interface, and the merge-by-keys transform.         *)
(*                                                                         *)
(* One store is modelled at a time: `backend` is fixed by Init, `store`    *)
(* is what that backend keeps.  Every storage method is a pure operator    *)
(* from a store (and the call's arguments) to an outcome: the exception    *)
(* it raises ("" when it returns) with the value returned or the store     *)
(* left behind.  The actions apply these operators.  `scope` is what the   *)
(* callers draw their arguments from: bucket ids and timestamps.           *)
(***************************************************************************)
EXTENDS Integers, Sequences, FiniteSets, TLC

VARIABLES backend, scope, store, hist, pc, merge

vars == <<backend, scope, store, hist, pc, merge>>

\* ---------------------------------------------------------------- bounds
MaxTime == 3
MaxEvents == 3
MaxBatch == 2
MaxCreated == 2
MaxId == 4
MaxCalls == 1
MaxMergeLen == 2
MaxDuration == 2
MaxStamp == 2

\* ------------------------------------------------------------ the values
Backends == {"Memory", "File", "TinyDb", "MongoDB"}
Buckets == {"b1", "b2"}
Payloads == {"x", "y"}
Threads == {"t1", "t2"}

\* Python's None, for an absent name, starttime or endtime.
None == 0
\* sys.maxsize, the limit that means "no limit".
maxsize == 2147483647
\* 10**9, the MongoDB strategy's "no limit".
MongoNoLimit == 1000000000

\* A datetime, and the ISO-8601 string that isoformat() makes of it.  Both
\* carry the instant t; they are different values of different types.
DateTime(t) == [kind |-> "datetime", t |-> t]
isoformat(d) == [kind |-> "iso8601", t |-> d.t]
parse_date(s) == [kind |-> "datetime", t |-> s.t]

\* aw_core.models.Event: a timestamp and the rest of the event (duration and
\* payload), which the stores only carry around.
Event(t, d) == [timestamp |-> DateTime(t), data |-> d]
Events == {Event(t, d) : t \in 1..MaxTime, d \in Payloads}

\* Event.to_json_dict(): the same event with its timestamp as an ISO string.
to_json_dict(e) == [timestamp |-> isoformat(e.timestamp), data |-> e.data]

\* The blank line that an empty batch leaves in a bucket's file.
BlankLine == [timestamp |-> [kind |-> "blank", t |-> 0], data |-> ""]

\* The events of a scope (its timestamps, its payloads), and the batches of
\* at most MaxBatch of them, the arguments of insert_many.
EventsOf(sc) == {Event(t, d) : t \in sc.times, d \in sc.data}
Batches(sc) == UNION {[1..n -> EventsOf(sc)] : n \in 0..MaxBatch}

\* The bucket metadata that create_bucket writes down.
Metadata_name_as_given(b, type_id, client, hostname, created, name) ==
    [id |-> b, name |-> name, type |-> type_id,
     client |-> client, hostname |-> hostname, created |-> created]
Metadata(b, type_id, client, hostname, created, name) ==
    [id |-> b, name |-> IF name = "" THEN b ELSE name, type |-> type_id,
     client |-> client, hostname |-> hostname, created |-> created]

\* ----------------------------------------------------------- sequences
Reverse(s) == [i \in 1..Len(s) |-> s[Len(s) + 1 - i]]

Min(a, b) == IF a < b THEN a ELSE b
Max(a, b) == IF a > b THEN a ELSE b

\* Python's s[start:], start possibly negative (counted from the end).
SliceFrom(s, start) ==
    LET from == IF start < 0 THEN Max(Len(s) + start, 0) ELSE Min(start, Len(s))
    IN  SubSeq(s, from + 1, Len(s))

\* Python's s[:stop] for stop >= 0.
SliceTo(s, stop) == SubSeq(s, 1, Min(stop, Len(s)))

\* s without its i-th element.
RemoveAt(s, i) == SubSeq(s, 1, i - 1) \o SubSeq(s, i + 1, Len(s))

\* ------------------------------------------------------------ the store
\* meta:   bucket id -> metadata record (Memory: _metadata; File, TinyDb: the
\*         bucket directory with its metadata.json; MongoDB: the bucket's
\*         "metadata" collection).
\* events: bucket id -> rows (Memory: db; File: the lines of the bucket's
\*         file "0"; TinyDb: the table in <id>.json; MongoDB: the bucket's
\*         "events" collection).  A row is [id, doc]: the record identifier
\*         the store gave the document (TinyDB's eid, MongoDB's _id; 0 where
\*         the store has none) and the document.
\* lastid: the last record identifier handed out for the bucket.
EmptyStore == [meta |-> <<>>, events |-> <<>>, lastid |-> [b \in Buckets |-> 0]]

Row(id, doc) == [id |-> id, doc |-> doc]
Docs(rows) == [i \in 1..Len(rows) |-> rows[i].doc]

\* f with key k bound to v, k in its domain or not.
Put(f, k, v) == [x \in DOMAIN f \cup {k} |-> IF x = k THEN v ELSE f[x]]
\* f without key k.
Drop_every_key(f, k) == [x \in {} |-> f[x]]
Drop(f, k) == [x \in DOMAIN f \ {k} |-> f[x]]

\* The outcome of a call: the exception raised ("" for none), the value
\* returned, the store left behind.
Returns(v, s) == [err |-> "", val |-> v, store |-> s]
Raises(e, s) == [err |-> e, val |-> <<>>, store |-> s]

\* ------------------------------------------------ MemoryStorageStrategy
Memory_create_bucket(s, b, type_id, client, hostname, created, name) ==
    Returns(None, [s EXCEPT
        !.meta = Put(@, b, Metadata(b, type_id, client, hostname, created, name)),
        !.events = Put(@, b, <<>>)])

Memory_delete_bucket(s, b) ==
    IF b \notin DOMAIN s.events THEN Raises("KeyError", s)
    ELSE Returns(None, [s EXCEPT !.events = Drop(@, b), !.meta = Drop(@, b)])

Memory_get_metadata(s, b) ==
    IF b \notin DOMAIN s.meta THEN Raises("KeyError", s)
    ELSE Returns(s.meta[b], s)

Memory_buckets(s) == Returns([b \in DOMAIN s.events |-> s.meta[b]], s)

Memory_get_events_starttime_only(s, b, limit, starttime, endtime) ==
    IF b \notin DOMAIN s.events THEN Raises("KeyError", s)
    ELSE IF starttime # None THEN Raises("NotImplementedError", s)
    ELSE LET lim == IF limit = -1 THEN maxsize ELSE limit
         IN  Returns(SliceFrom(Docs(s.events[b]), -lim), s)

Memory_get_events(s, b, limit, starttime, endtime) ==
    IF b \notin DOMAIN s.events THEN Raises("KeyError", s)
    ELSE IF starttime # None \/ endtime # None THEN Raises("NotImplementedError", s)
    ELSE LET lim == IF limit = -1 THEN maxsize ELSE limit
         IN  Returns(SliceFrom(Docs(s.events[b]), -lim), s)

Memory_insert_one(s, b, event) ==
    IF b \notin DOMAIN s.events THEN Raises("KeyError", s)
    ELSE Returns(None, [s EXCEPT !.events[b] = Append(@, Row(0, event))])

Memory_replace_last(s, b, event) ==
    IF b \notin DOMAIN s.events THEN Raises("KeyError", s)
    ELSE IF s.events[b] = <<>> THEN Raises("IndexError", s)
    ELSE Returns(None, [s EXCEPT !.events[b] =
        [s.events[b] EXCEPT ![Len(s.events[b])] = Row(0, event)]])

\* -------------------------------------------------- FileStorageStrategy
\* s.meta[b] is the bucket directory with its metadata.json, s.events[b] the
\* lines of the file _get_filename(b), which is <bucket dir>/0.
File_create_bucket(s, b, type_id, client, hostname, created, name) ==
    Returns(None, [s EXCEPT
        !.meta = Put(@, b, Metadata(b, type_id, client, hostname, created, name))])

File_delete_bucket(s, b) ==
    IF b \notin DOMAIN s.meta THEN Raises("FileNotFoundError", s)
    ELSE Returns(None, [s EXCEPT !.events = Drop(@, b), !.meta = Drop(@, b)])

File_get_metadata(s, b) ==
    IF b \notin DOMAIN s.meta THEN Raises("FileNotFoundError", s)
    ELSE Returns(s.meta[b], s)

File_buckets(s) == Returns([b \in DOMAIN s.meta |-> s.meta[b]], s)

File_get_events(s, b, limit, starttime, endtime) ==
    IF starttime # None \/ endtime # None THEN Raises("NotImplementedError", s)
    ELSE IF b \notin DOMAIN s.events THEN Returns(<<>>, s)
    ELSE LET lim == IF limit = -1 THEN maxsize ELSE limit
             lines == SliceFrom(Docs(s.events[b]), -lim)
         IN  IF \E i \in 1..Len(lines) : lines[i] = BlankLine
             THEN Raises("JSONDecodeError", s)
             ELSE Returns(lines, s)

\* The lines that one append writes: "\n".join(...) + "\n" is one line per
\* event, and a single empty line for an empty batch.
File_lines(events) ==
    IF events = <<>> THEN <<Row(0, BlankLine)>>
    ELSE [i \in 1..Len(events) |-> Row(0, to_json_dict(events[i]))]

File_insert_many(s, b, events) ==
    IF b \notin DOMAIN s.meta THEN Raises("FileNotFoundError", s)
    ELSE Returns(None, [s EXCEPT !.events =
        Put(@, b, (IF b \in DOMAIN @ THEN @[b] ELSE <<>>) \o File_lines(events))])

File_insert_one(s, b, event) == File_insert_many(s, b, <<event>>)

\* replace_last in its three steps: read every event, open the file for
\* writing (which empties it), write the events back with the last replaced.
File_replace_last_read(s, b) == File_get_events(s, b, -1, None, None)

File_replace_last_open(s, b) ==
    IF b \notin DOMAIN s.meta THEN Raises("FileNotFoundError", s)
    ELSE Returns(None, [s EXCEPT !.events = Put(@, b, <<>>)])

File_replace_last_write(s, b, events, newevent) ==
    IF events = <<>> THEN Raises("IndexError", s)
    ELSE LET new == [events EXCEPT ![Len(events)] = to_json_dict(newevent)]
         IN  Returns(None, [s EXCEPT !.events[b] =
                 [i \in 1..Len(new) |-> Row(0, new[i])]])

File_replace_last(s, b, newevent) ==
    LET read == File_replace_last_read(s, b)
        open == File_replace_last_open(s, b)
    IN  IF read.err # "" THEN Raises(read.err, s)
        ELSE IF open.err # "" THEN open
        ELSE File_replace_last_write(open.store, b, read.val, newevent)

\* ------------------------------------------------------- TinyDbStorage
\* s.meta[b] is the bucket directory with its metadata.json, s.events[b] the
\* table of <id>.json behind the handle self.db[b]: its documents in the
\* order all() lists them, each under its eid.  s.lastid[b] is the handle's
\* last eid.

\* DateTimeSerializer: what is written for a datetime, and what is read back.
DateTimeSerializer_encode(e) == [e EXCEPT !.timestamp = isoformat(@)]
DateTimeSerializer_decode(d) == [d EXCEPT !.timestamp = parse_date(@)]

\* TinyDB's Table.all(): every document, decoded.
TinyDb_all(s, b) ==
    [i \in 1..Len(s.events[b]) |-> DateTimeSerializer_decode(s.events[b][i].doc)]

\* The largest eid of a table, which a newly opened handle starts from.
RECURSIVE MaxEid(_)
MaxEid(rows) ==
    IF rows = <<>> THEN 0 ELSE Max(rows[Len(rows)].id, MaxEid(SubSeq(rows, 1, Len(rows) - 1)))

TinyDb_add_bucket(s, b) ==
    LET table == IF b \in DOMAIN s.events THEN s.events[b] ELSE <<>>
    IN  [s EXCEPT !.events = Put(@, b, table), !.lastid[b] = MaxEid(table)]

TinyDb_create_bucket(s, b, type_id, client, hostname, created, name) ==
    Returns(None, TinyDb_add_bucket([s EXCEPT
        !.meta = Put(@, b, Metadata(b, type_id, client, hostname, created, name))], b))

TinyDb_delete_bucket(s, b) ==
    IF b \notin DOMAIN s.events THEN Raises("KeyError", s)
    ELSE Returns(None, [s EXCEPT !.events = Drop(@, b), !.meta = Drop(@, b),
                                 !.lastid[b] = 0])

TinyDb_get_metadata(s, b) ==
    IF b \notin DOMAIN s.meta THEN Raises("FileNotFoundError", s)
    ELSE Returns(s.meta[b], s)

TinyDb_buckets(s) == Returns([b \in DOMAIN s.events |-> s.meta[b]], s)

\* Line 111: sorted() returns a new list, which is dropped; events is as it was.
TinyDb_sorted(events) == events

\* Lines 112-115: every timestamp read back must be a datetime.  Event (of
\* aw_core.models) is taken to answer event['timestamp'][0] with the
\* timestamp's datetime, as the isinstance test of line 114 expects.
TinyDb_timestamps_ok(events) ==
    \A i \in 1..Len(events) : events[i].timestamp.kind = "datetime"

TinyDb_before_inclusive(event, endtime) == event.timestamp.t <= endtime
TinyDb_before(event, endtime) == event.timestamp.t < endtime
TinyDb_after(event, starttime) == event.timestamp.t > starttime

TinyDb_get_events(s, b, limit, starttime, endtime) ==
    IF b \notin DOMAIN s.events THEN Raises("KeyError", s)
    ELSE LET lim == IF limit <= 0 THEN maxsize ELSE limit
             all == TinyDb_sorted(Reverse(TinyDb_all(s, b)))
             BeforeEnd(e) == TinyDb_before(e, endtime)
             AfterStart(e) == TinyDb_after(e, starttime)
             ended == IF endtime # None THEN SelectSeq(all, BeforeEnd) ELSE all
             limited == SliceTo(ended, lim)
             started == IF starttime # None THEN SelectSeq(limited, AfterStart)
                        ELSE limited
         IN  IF ~TinyDb_timestamps_ok(all) THEN Raises("BaseException", s)
             ELSE Returns(started, s)

TinyDb_insert_one(s, b, event) ==
    IF b \notin DOMAIN s.events THEN Raises("KeyError", s)
    ELSE Returns(None, [s EXCEPT
        !.events[b] = Append(@, Row(s.lastid[b] + 1, DateTimeSerializer_encode(event))),
        !.lastid[b] = @ + 1])

RECURSIVE TinyDb_insert_many(_, _, _)
TinyDb_insert_many(s, b, events) ==
    IF b \notin DOMAIN s.events THEN Raises("KeyError", s)
    ELSE IF events = <<>> THEN Returns(None, s)
    ELSE TinyDb_insert_many(TinyDb_insert_one(s, b, Head(events)).store, b, Tail(events))

\* replace_last in its steps: get(where('timestamp') == <the timestamp of
\* get_events(b, 1)[0]>) is the first document of the table with that
\* timestamp; its eid is removed; the event is inserted.
TinyDb_replace_last_get(s, b) ==
    LET got == TinyDb_get_events(s, b, 1, None, None)
        all == TinyDb_all(s, b)
        hit == CHOOSE i \in 1..Len(all) : /\ all[i].timestamp = got.val[1].timestamp
                                          /\ \A j \in 1..(i - 1) :
                                                all[j].timestamp # got.val[1].timestamp
    IN  IF got.err # "" THEN Raises(got.err, s)
        ELSE IF got.val = <<>> THEN Raises("IndexError", s)
        ELSE Returns(s.events[b][hit].id, s)

TinyDb_remove(s, b, eid) ==
    IF b \notin DOMAIN s.events THEN Raises("KeyError", s)
    ELSE IF \A i \in 1..Len(s.events[b]) : s.events[b][i].id # eid
    THEN Raises("KeyError", s)
    ELSE LET at == CHOOSE i \in 1..Len(s.events[b]) : s.events[b][i].id = eid
         IN  Returns(None, [s EXCEPT !.events[b] = RemoveAt(@, at)])

TinyDb_replace_last(s, b, event) ==
    LET got == TinyDb_replace_last_get(s, b)
        removed == TinyDb_remove(s, b, got.val)
    IN  IF got.err # "" THEN got
        ELSE IF removed.err # "" THEN removed
        ELSE TinyDb_insert_one(removed.store, b, event)

\* ----------------------------------------------- MongoDBStorageStrategy
\* s.meta[b] is the one document of the collection <b>.metadata, s.events[b]
\* the documents of <b>.events in their natural order, each under its _id.  A
\* collection exists while it holds a document.

Mongo_create_bucket(s, b, type_id, client, hostname, created, name) ==
    IF b \in DOMAIN s.meta THEN Raises("DuplicateKeyError", s)
    ELSE Returns(None, [s EXCEPT
        !.meta = Put(@, b, Metadata(b, type_id, client, hostname, created, name))])

Mongo_delete_bucket(s, b) ==
    Returns(None, [s EXCEPT !.events = Drop(@, b), !.meta = Drop(@, b)])

\* delete_bucket in its two statements: drop the events collection (line
\* 210), then drop the metadata collection (line 211).  Dropping a collection
\* that does not exist is not an error.
Mongo_delete_bucket_events(s, b) == Returns(None, [s EXCEPT !.events = Drop(@, b)])
Mongo_delete_bucket_metadata(s, b) == Returns(None, [s EXCEPT !.meta = Drop(@, b)])

\* find_one() answers None for a bucket without a metadata document.
NoMetadata == [id |-> "", name |-> "", type |-> "", client |-> "",
               hostname |-> "", created |-> None]

Mongo_get_metadata(s, b) ==
    IF b \in DOMAIN s.meta THEN Returns(s.meta[b], s) ELSE Returns(NoMetadata, s)

Mongo_buckets(s) ==
    Returns([b \in DOMAIN s.meta \cup DOMAIN s.events |-> Mongo_get_metadata(s, b).val], s)

\* {"timestamp": {"$gt": starttime, "$lt": endtime}}: a comparison with a
\* date matches only a field that holds a date.
Mongo_matches(doc, starttime, endtime) ==
    /\ starttime # None => doc.timestamp.kind = "datetime" /\ doc.timestamp.t > starttime
    /\ endtime # None => doc.timestamp.kind = "datetime" /\ doc.timestamp.t < endtime

\* sort([("timestamp", -1)]): BSON orders every string before every date,
\* strings and dates among themselves by value.  True when a sorts strictly
\* before b in descending order.
Mongo_sorts_before(a, b) ==
    \/ a.timestamp.kind = "datetime" /\ b.timestamp.kind # "datetime"
    \/ a.timestamp.kind = b.timestamp.kind /\ a.timestamp.t > b.timestamp.t

\* The rows in descending order; rows that compare equal keep their natural
\* order.
RECURSIVE Mongo_sort(_)
Mongo_sort(rows) ==
    IF rows = <<>> THEN <<>>
    ELSE LET first == CHOOSE i \in 1..Len(rows) :
                 /\ \A j \in 1..Len(rows) : ~Mongo_sorts_before(rows[j].doc, rows[i].doc)
                 /\ \A j \in 1..(i - 1) : Mongo_sorts_before(rows[i].doc, rows[j].doc)
         IN  <<rows[first]>> \o Mongo_sort(RemoveAt(rows, first))

Mongo_find(s, b, starttime, endtime) ==
    LET rows == IF b \in DOMAIN s.events THEN s.events[b] ELSE <<>>
        Match(r) == Mongo_matches(r.doc, starttime, endtime)
    IN  SelectSeq(rows, Match)

Mongo_get_events(s, b, limit, starttime, endtime) ==
    LET lim == IF limit <= 0 THEN MongoNoLimit ELSE limit
    IN  Returns(Docs(SliceTo(Mongo_sort(Mongo_find(s, b, starttime, endtime)), lim)), s)

Mongo_insert_one(s, b, event) ==
    Returns(None, [s EXCEPT
        !.events = Put(@, b, (IF b \in DOMAIN @ THEN @[b] ELSE <<>>)
                              \o <<Row(s.lastid[b] + 1, event)>>),
        !.lastid[b] = @ + 1])

\* replace_last in its two steps: find the latest document, replace the
\* document that has its _id.
Mongo_replace_last_find(s, b) ==
    LET found == SliceTo(Mongo_sort(Mongo_find(s, b, None, None)), 1)
    IN  IF found = <<>> THEN Raises("IndexError", s) ELSE Returns(found[1].id, s)

Mongo_replace_one(s, b, id, doc) ==
    IF b \notin DOMAIN s.events THEN Returns(None, s)
    ELSE Returns(None, [s EXCEPT !.events[b] =
        [i \in 1..Len(@) |-> IF @[i].id = id THEN Row(id, doc) ELSE @[i]]])

Mongo_replace_last(s, b, event) ==
    LET found == Mongo_replace_last_find(s, b)
    IN  IF found.err # "" THEN found
        ELSE Mongo_replace_one(s, b, found.val, to_json_dict(event))

\* ------------------------------------------------- the storage interface
create_bucket(B, s, b, type_id, client, hostname, created, name) ==
    CASE B = "Memory" -> Memory_create_bucket(s, b, type_id, client, hostname, created, name)
      [] B = "File" -> File_create_bucket(s, b, type_id, client, hostname, created, name)
      [] B = "TinyDb" -> TinyDb_create_bucket(s, b, type_id, client, hostname, created, name)
      [] B = "MongoDB" -> Mongo_create_bucket(s, b, type_id, client, hostname, created, name)

delete_bucket(B, s, b) ==
    CASE B = "Memory" -> Memory_delete_bucket(s, b)
      [] B = "File" -> File_delete_bucket(s, b)
      [] B = "TinyDb" -> TinyDb_delete_bucket(s, b)
      [] B = "MongoDB" -> Mongo_delete_bucket(s, b)

get_metadata(B, s, b) ==
    CASE B = "Memory" -> Memory_get_metadata(s, b)
      [] B = "File" -> File_get_metadata(s, b)
      [] B = "TinyDb" -> TinyDb_get_metadata(s, b)
      [] B = "MongoDB" -> Mongo_get_metadata(s, b)

buckets(B, s) ==
    CASE B = "Memory" -> Memory_buckets(s)
      [] B = "File" -> File_buckets(s)
      [] B = "TinyDb" -> TinyDb_buckets(s)
      [] B = "MongoDB" -> Mongo_buckets(s)

get_events(B, s, b, limit, starttime, endtime) ==
    CASE B = "Memory" -> Memory_get_events(s, b, limit, starttime, endtime)
      [] B = "File" -> File_get_events(s, b, limit, starttime, endtime)
      [] B = "TinyDb" -> TinyDb_get_events(s, b, limit, starttime, endtime)
      [] B = "MongoDB" -> Mongo_get_events(s, b, limit, starttime, endtime)

insert_one(B, s, b, event) ==
    CASE B = "Memory" -> Memory_insert_one(s, b, event)
      [] B = "File" -> File_insert_one(s, b, event)
      [] B = "TinyDb" -> TinyDb_insert_one(s, b, event)
      [] B = "MongoDB" -> Mongo_insert_one(s, b, event)

\* StorageStrategy.insert_many, which Memory and MongoDB inherit: insert_one
\* for each event in order, stopping at the first that raises.
RECURSIVE StorageStrategy_insert_many(_, _, _, _)
StorageStrategy_insert_many(B, s, b, events) ==
    IF events = <<>> THEN Returns(None, s)
    ELSE LET one == insert_one(B, s, b, Head(events))
         IN  IF one.err # "" THEN one
             ELSE StorageStrategy_insert_many(B, one.store, b, Tail(events))

insert_many(B, s, b, events) ==
    CASE B = "Memory" -> StorageStrategy_insert_many(B, s, b, events)
      [] B = "File" -> File_insert_many(s, b, events)
      [] B = "TinyDb" -> TinyDb_insert_many(s, b, events)
      [] B = "MongoDB" -> StorageStrategy_insert_many(B, s, b, events)

replace_last(B, s, b, event) ==
    CASE B = "Memory" -> Memory_replace_last(s, b, event)
      [] B = "File" -> File_replace_last(s, b, event)
      [] B = "TinyDb" -> TinyDb_replace_last(s, b, event)
      [] B = "MongoDB" -> Mongo_replace_last(s, b, event)

\* ------------------------------------------------ merge_events_by_keys
\* The keys and values of event payloads, and the payloads: any of the keys,
\* each with a value.
MergeKeys == {"a", "b"}
MergeValues == {"u", "v"}
MergeData == UNION {[K -> MergeValues] : K \in SUBSET MergeKeys}

\* An event as the transform reads it: timestamp, duration, payload (data).
MergeEvent(timestamp, duration, data) ==
    [timestamp |-> timestamp, duration |-> duration, data |-> data]
MergeEvents ==
    {MergeEvent(DateTime(t), d, data) :
        t \in 1..MaxStamp, d \in 1..MaxDuration, data \in MergeData}

\* The arguments: lists of at most MaxMergeLen events, lists of keys (a key
\* may be named twice).
EventLists == UNION {[1..n -> MergeEvents] : n \in 0..MaxMergeLen}
KeyLists == UNION {[1..n -> MergeKeys] : n \in 0..Cardinality(MergeKeys)}

\* Lines 16-19: the values of the keys the event has, in the order of keys.
RECURSIVE composite_key(_, _)
composite_key(event, keys) ==
    IF keys = <<>> THEN <<>>
    ELSE (IF Head(keys) \in DOMAIN event.data THEN <<event.data[Head(keys)]>> ELSE <<>>)
             \o composite_key(event, Tail(keys))

\* Lines 21-28: the event kept for a composite key seen for the first time:
\* the timestamp and duration of the event, and of its data the keys asked for.
merge_new_event_without_data(event, keys) ==
    MergeEvent(event.timestamp, event.duration, <<>>)
merge_new_event(event, keys) ==
    MergeEvent(event.timestamp, event.duration,
               [k \in {keys[i] : i \in 1..Len(keys)} \cap DOMAIN event.data |-> event.data[k]])

\* Line 30: the duration of a further event with the composite key is added.
merge_keep_duration(merged, event) == merged
merge_add_duration(merged, event) == [merged EXCEPT !.duration = @ + event.duration]

\* Lines 14-30: merged_events, the dict from composite key to event, as its
\* entries in the order they were added.
RECURSIVE merge_loop(_, _, _)
merge_loop(events, keys, merged_events) ==
    IF events = <<>> THEN merged_events
    ELSE LET event == Head(events)
             key == composite_key(event, keys)
             at == {i \in 1..Len(merged_events) : merged_events[i].key = key}
         IN  merge_loop(Tail(events), keys,
                 IF at = {}
                 THEN Append(merged_events,
                             [key |-> key, event |-> merge_new_event(event, keys)])
                 ELSE [i \in 1..Len(merged_events) |->
                          IF i \in at
                          THEN [merged_events[i] EXCEPT
                                   !.event = merge_add_duration(@, event)]
                          ELSE merged_events[i]])

\* merge_events_by_keys: with no keys, the events as given; otherwise the
\* events of merged_events, here in the order the entries were added.
merge_events_by_keys(events, keys) ==
    IF Len(keys) < 1 THEN events
    ELSE LET merged_events == merge_loop(events, keys, <<>>)
         IN  [i \in 1..Len(merged_events) |-> merged_events[i].event]

\* Lines 31-34: the result lists the dict's entries in the dict's order,
\* which is the order they were added in on a Python whose dicts keep it and
\* any order on one whose dicts do not.
merge_results(events, keys) ==
    LET result == merge_events_by_keys(events, keys)
    IN  IF Len(keys) < 1 THEN {result}
        ELSE {[i \in 1..Len(result) |-> result[p[i]]] : p \in Permutations(1..Len(result))}

\* -------------------------------------------------------- the machine
\* backend: the storage strategy in use.
\* scope:   what the callers use: bucket ids, the timestamps and payloads of
\*          events, creation times and names of buckets, and the threads
\*          that call replace_last.
\* store:   what the strategy keeps.
\* hist:    per bucket, a record of its life: whether it was created where
\*          nothing of it existed and has since seen only inserts that
\*          returned, which inserts, and the events given to them in order.
\* merge:   a use of merge_events_by_keys: its arguments, how far it has
\*          got, what it returned, and what it returned when given that
\*          again with the same keys.
\* pc:      per thread, the replace_last it is in the middle of: its
\*          arguments, the step it has taken, what it read (the record
\*          identifier, the events), and a record of the call's life: the
\*          store it began in, the number of events the bucket then held,
\*          the events that insert_one calls have added to the bucket since,
\*          and whether such calls are all that has touched the bucket since;
\*          and the number of replace_last calls the thread has begun.
NoMerge == [step |-> "", events |-> <<>>, keys |-> <<>>, result |-> <<>>, again |-> <<>>]

NoHist == [fresh |-> FALSE, ops |-> {}, ins |-> <<>>]
FreshHist == [fresh |-> TRUE, ops |-> {}, ins |-> <<>>]

Idle == [op |-> "", bucket |-> "", event |-> Event(1, "x"), step |-> 0,
         id |-> 0, events |-> <<>>, n |-> 0, start |-> EmptyStore,
         seen |-> <<>>, tracked |-> FALSE, calls |-> 0]

\* The thread is not in a call; it has made p.calls calls of replace_last.
IsIdle(p) == p.op = ""

\* Whether anything of bucket b is in store s.
Exists(s, b) == b \in DOMAIN s.meta \cup DOMAIN s.events

\* The number of rows in store s.
RECURSIVE Stored(_, _)
Stored(s, bs) ==
    IF bs = {} THEN 0
    ELSE LET b == CHOOSE x \in bs : TRUE
         IN  (IF b \in DOMAIN s.events THEN Len(s.events[b]) ELSE 0) + Stored(s, bs \ {b})

\* The model's bounds on a store: at most MaxEvents rows, identifiers up to
\* MaxId.
Fits(s) == Stored(s, Buckets) <= MaxEvents /\ \A b \in Buckets : s.lastid[b] <= MaxId

\* A thread is free to make a call.
SomeIdle == \E t \in scope.threads : IsIdle(pc[t])

\* One store of any strategy, empty, no call under way.
InitStore ==
    /\ backend \in Backends
    /\ store = EmptyStore
    /\ hist = [b \in Buckets |-> NoHist]
    /\ pc = [t \in Threads |-> Idle]
    /\ merge = NoMerge

\* The names a bucket is created with: none, or one.
Names == {"", "name"}

Init ==
    /\ InitStore
    /\ scope = [ids |-> {"b1"}, times |-> 1..MaxTime, data |-> Payloads,
                created |-> 1..MaxCreated, names |-> Names, threads |-> {"t1"}]

\* hist after an insert into b of the events es that ended with outcome r.
Inserted(b, op, es, r) ==
    IF hist[b].fresh /\ r.err = ""
    THEN [hist EXCEPT ![b].ops = @ \cup {op}, ![b].ins = @ \o es]
    ELSE [hist EXCEPT ![b] = NoHist]

\* pc after a call op on bucket b that ended with outcome r: a replace_last
\* under way on b notes the events an insert_one added, and any other call.
Overlapped(b, op, es, r) ==
    [t \in Threads |->
        IF pc[t].op = "replace_last" /\ pc[t].bucket = b
        THEN IF op = "insert_one" /\ r.err = "" /\ pc[t].tracked
             THEN [pc[t] EXCEPT !.seen = @ \o es]
             ELSE [pc[t] EXCEPT !.tracked = FALSE, !.start = EmptyStore, !.seen = <<>>]
        ELSE pc[t]]

CreateBucket(b, created, name) ==
    LET r == create_bucket(backend, store, b, "type", "client", "host", created, name)
    IN  /\ SomeIdle
        /\ store' = r.store
        /\ hist' = [hist EXCEPT
               ![b] = IF r.err = "" /\ ~Exists(store, b) THEN FreshHist ELSE NoHist]
        /\ pc' = Overlapped(b, "create_bucket", <<>>, r)
        /\ UNCHANGED <<backend, scope, merge>>

DeleteBucket(b) ==
    LET r == delete_bucket(backend, store, b)
    IN  /\ SomeIdle
        /\ store' = r.store
        /\ hist' = [hist EXCEPT ![b] = NoHist]
        /\ pc' = Overlapped(b, "delete_bucket", <<>>, r)
        /\ UNCHANGED <<backend, scope, merge>>

InsertOne(b, event) ==
    LET r == insert_one(backend, store, b, event)
    IN  /\ SomeIdle
        /\ Fits(r.store)
        /\ store' = r.store
        /\ hist' = Inserted(b, "insert_one", <<event>>, r)
        /\ pc' = Overlapped(b, "insert_one", <<event>>, r)
        /\ UNCHANGED <<backend, scope, merge>>

InsertMany(b, events) ==
    LET r == insert_many(backend, store, b, events)
    IN  /\ SomeIdle
        /\ Stored(store, Buckets) + Len(events) <= MaxEvents
        /\ Fits(r.store)
        /\ store' = r.store
        /\ hist' = Inserted(b, "insert_many", events, r)
        /\ pc' = Overlapped(b, "insert_many", events, r)
        /\ UNCHANGED <<backend, scope, merge>>

ReplaceLast(b, event) ==
    LET r == replace_last(backend, store, b, event)
    IN  /\ SomeIdle
        /\ Fits(r.store)
        /\ store' = r.store
        /\ hist' = [hist EXCEPT ![b] = NoHist]
        /\ pc' = Overlapped(b, "replace_last", <<>>, r)
        /\ UNCHANGED <<backend, scope, merge>>

\* One caller at a time: every call runs from its start to its end.
Next ==
    \/ \E b \in scope.ids, created \in scope.created, name \in scope.names :
           CreateBucket(b, created, name)
    \/ \E b \in scope.ids : DeleteBucket(b)
    \/ \E b \in scope.ids, event \in EventsOf(scope) : InsertOne(b, event)
    \/ \E b \in scope.ids, events \in Batches(scope) : InsertMany(b, events)
    \/ \E b \in scope.ids, event \in EventsOf(scope) : ReplaceLast(b, event)

Spec == Init /\ [][Next]_vars

\* The strategies that implement time filtering, one caller at a time.
Filtering == {"TinyDb", "MongoDB"}

InitFilter ==
    /\ InitStore
    /\ backend \in Filtering
    /\ scope = [ids |-> {"b1"}, times |-> 1..MaxTime, data |-> {"x"}, created |-> 1..1,
                names |-> {""}, threads |-> {"t1"}]
SpecFilter == InitFilter /\ [][Next]_vars

\* The strategies that do not, one caller at a time.
NotFiltering == {"Memory", "File"}

InitNotFilter ==
    /\ InitStore
    /\ backend \in NotFiltering
    /\ scope = [ids |-> {"b1"}, times |-> 1..MaxTime, data |-> {"x"}, created |-> 1..1,
                names |-> {""}, threads |-> {"t1"}]
SpecNotFilter == InitNotFilter /\ [][Next]_vars

\* Every strategy, buckets created with every name and creation time, one
\* kind of event.
InitCreate ==
    /\ InitStore
    /\ scope = [ids |-> {"b1"}, times |-> 1..1, data |-> {"x"},
                created |-> 1..MaxCreated, names |-> Names, threads |-> {"t1"}]
SpecCreate == InitCreate /\ [][Next]_vars

\* Every strategy, two buckets, one kind of event.
InitTwo ==
    /\ InitStore
    /\ scope = [ids |-> Buckets, times |-> 1..1, data |-> {"x"}, created |-> 1..1,
                names |-> {""}, threads |-> {"t1"}]
SpecTwo == InitTwo /\ [][Next]_vars

\* ------------------------------------------------- callers side by side
\* No method takes a lock, so a replace_last runs statement by statement
\* among the other callers' calls.  Its first statement reads: the events
\* (File), the record identifier of the document to go (TinyDb, MongoDB).
\* The memory strategy's replace_last is the one statement.
replace_last_first(B, s, b, event) ==
    CASE B = "Memory" -> Memory_replace_last(s, b, event)
      [] B = "File" -> File_replace_last_read(s, b)
      [] B = "TinyDb" -> TinyDb_replace_last_get(s, b)
      [] B = "MongoDB" -> Mongo_replace_last_find(s, b)

\* The statements that follow, by the step p.step the call has taken.
replace_last_next(B, s, p) ==
    CASE B = "File" /\ p.step = 1 -> File_replace_last_open(s, p.bucket)
      [] B = "File" /\ p.step = 2 -> File_replace_last_write(s, p.bucket, p.events, p.event)
      [] B = "TinyDb" /\ p.step = 1 -> TinyDb_remove(s, p.bucket, p.id)
      [] B = "TinyDb" /\ p.step = 2 -> TinyDb_insert_one(s, p.bucket, p.event)
      [] B = "MongoDB" /\ p.step = 1 ->
             Mongo_replace_one(s, p.bucket, p.id, to_json_dict(p.event))

\* The number of statements of replace_last.
replace_last_steps(B) ==
    CASE B = "Memory" -> 1 [] B = "File" -> 3 [] B = "TinyDb" -> 3 [] B = "MongoDB" -> 2

ReplaceLastBegin(t, b, event) ==
    LET r == replace_last_first(backend, store, b, event)
        ends == r.err # "" \/ replace_last_steps(backend) = 1
        others == Overlapped(b, "replace_last", <<>>, r)
        alone == \A u \in Threads : IsIdle(pc[u])
    IN  /\ IsIdle(pc[t])
        /\ pc[t].calls < MaxCalls
        /\ store.lastid[b] < MaxId
        /\ store' = r.store
        /\ hist' = [hist EXCEPT ![b] = NoHist]
        /\ pc' = IF ends THEN [others EXCEPT ![t].calls = @ + 1]
                 ELSE [others EXCEPT ![t] =
                     [op |-> "replace_last", bucket |-> b, event |-> event, step |-> 1,
                      id |-> IF backend = "File" THEN 0 ELSE r.val,
                      events |-> IF backend = "File" THEN r.val ELSE <<>>,
                      n |-> IF b \in DOMAIN store.events THEN Len(store.events[b]) ELSE 0,
                      start |-> IF alone THEN store ELSE EmptyStore, seen |-> <<>>,
                      tracked |-> alone,
                      calls |-> pc[t].calls + 1]]
        /\ UNCHANGED <<backend, scope, merge>>

ReplaceLastStep(t) ==
    LET r == replace_last_next(backend, store, pc[t])
        ends == r.err # "" \/ pc[t].step + 1 = replace_last_steps(backend)
        others == Overlapped(pc[t].bucket, "replace_last", <<>>, r)
    IN  /\ pc[t].op = "replace_last"
        /\ store' = r.store
        /\ pc' = [others EXCEPT ![t] = IF ends THEN [Idle EXCEPT !.calls = pc[t].calls]
                                       ELSE [pc[t] EXCEPT !.step = @ + 1]]
        /\ UNCHANGED <<backend, scope, hist, merge>>

\* Callers that create buckets, insert and replace the last event, side by
\* side.
NextConc ==
    \/ \E b \in scope.ids, created \in scope.created, name \in scope.names :
           CreateBucket(b, created, name)
    \/ \E b \in scope.ids, event \in EventsOf(scope) : InsertOne(b, event)
    \/ \E b \in scope.ids, events \in Batches(scope) : InsertMany(b, events)
    \/ \E t \in scope.threads, b \in scope.ids, event \in EventsOf(scope) :
           ReplaceLastBegin(t, b, event)
    \/ \E t \in scope.threads : ReplaceLastStep(t)

\* One writer, whose replace_last a reader may look into at any point.
InitReader ==
    /\ InitStore
    /\ scope = [ids |-> {"b1"}, times |-> 1..1, data |-> Payloads, created |-> 1..1,
                names |-> {""}, threads |-> {"t1"}]
SpecReader == InitReader /\ [][NextConc]_vars

\* Two writers.
InitConc ==
    /\ InitStore
    /\ scope = [ids |-> {"b1"}, times |-> 1..1, data |-> Payloads, created |-> 1..1,
                names |-> {""}, threads |-> Threads]
SpecConc == InitConc /\ [][NextConc]_vars

\* ------------------------------------------- a delete that is cut short
\* The MongoDB strategy's delete_bucket, statement by statement.  The process
\* may die between the two statements (Crash): the call never goes on, and
\* the database stays as the first statement left it.
DeleteBucketBegin(t, b) ==
    LET r == Mongo_delete_bucket_events(store, b)
    IN  /\ backend = "MongoDB"
        /\ IsIdle(pc[t])
        /\ store' = r.store
        /\ hist' = [hist EXCEPT ![b] = NoHist]
        /\ pc' = [pc EXCEPT ![t] =
               [Idle EXCEPT !.op = "delete_bucket", !.bucket = b, !.step = 1,
                            !.n = IF b \in DOMAIN store.events THEN Len(store.events[b]) ELSE 0,
                            !.calls = pc[t].calls]]
        /\ UNCHANGED <<backend, scope, merge>>

DeleteBucketStep(t) ==
    LET r == Mongo_delete_bucket_metadata(store, pc[t].bucket)
    IN  /\ pc[t].op = "delete_bucket"
        /\ store' = r.store
        /\ pc' = [pc EXCEPT ![t] = [Idle EXCEPT !.calls = pc[t].calls]]
        /\ UNCHANGED <<backend, scope, hist, merge>>

Crash(t) ==
    /\ pc[t].op = "delete_bucket"
    /\ pc' = [pc EXCEPT ![t] = [Idle EXCEPT !.calls = pc[t].calls]]
    /\ UNCHANGED <<backend, scope, store, hist, merge>>

NextCrash ==
    \/ \E b \in scope.ids, created \in scope.created, name \in scope.names :
           CreateBucket(b, created, name)
    \/ \E b \in scope.ids, event \in EventsOf(scope) : InsertOne(b, event)
    \/ \E b \in scope.ids, events \in Batches(scope) : InsertMany(b, events)
    \/ \E t \in scope.threads, b \in scope.ids : DeleteBucketBegin(t, b)
    \/ \E t \in scope.threads : DeleteBucketStep(t)
    \/ \E t \in scope.threads : Crash(t)

InitCrash ==
    /\ InitStore
    /\ backend = "MongoDB"
    /\ scope = [ids |-> {"b1"}, times |-> 1..MaxTime, data |-> {"x"}, created |-> 1..1,
                names |-> {""}, threads |-> {"t1"}]
SpecCrash == InitCrash /\ [][NextCrash]_vars

\* ------------------------------------------------- merging by keys
\* A caller merges a list of events by a list of keys, then merges what it
\* got by the same keys again.  No store is in use.
Merge ==
    /\ merge.step = "given"
    /\ \E result \in merge_results(merge.events, merge.keys) :
           merge' = [merge EXCEPT !.step = "merged", !.result = result]
    /\ UNCHANGED <<backend, scope, store, hist, pc>>

MergeAgain ==
    /\ merge.step = "merged"
    /\ \E again \in merge_results(merge.result, merge.keys) :
           merge' = [merge EXCEPT !.step = "merged again", !.again = again]
    /\ UNCHANGED <<backend, scope, store, hist, pc>>

NextMerge == Merge \/ MergeAgain

InitMerge ==
    /\ backend = "Memory"
    /\ store = EmptyStore
    /\ hist = [b \in Buckets |-> NoHist]
    /\ pc = [t \in Threads |-> Idle]
    /\ scope = [ids |-> {}, times |-> {}, data |-> {}, created |-> {}, names |-> {},
                threads |-> {}]
    /\ \E events \in EventLists, keys \in KeyLists :
           merge = [NoMerge EXCEPT !.step = "given", !.events = events, !.keys = keys]
SpecMerge == InitMerge /\ [][NextMerge]_vars

\* ------------------------------------------------- properties
\* A document as the event it stands for, whatever its representation.
AsEvent(doc) == [timestamp |-> DateTime(doc.timestamp.t), data |-> doc.data]
AsEvents(docs) == [i \in 1..Len(docs) |-> AsEvent(docs[i])]

\* The limits that mean "no limit", the positive limits, the time bounds
\* (None for absent).
NoLimits == (0 - MaxEvents)..0
Limits == 1..MaxEvents
Bounds == {None} \cup 1..(MaxTime + 1)

\* The events a bucket holds, in the order they were stored.
StoredEvents(s, b) == IF b \in DOMAIN s.events THEN AsEvents(Docs(s.events[b])) ELSE <<>>

\* starttime < e.timestamp < endtime, for the bounds that are given.
Within(e, starttime, endtime) ==
    /\ starttime # None => starttime < e.timestamp.t
    /\ endtime # None => e.timestamp.t < endtime

\* How many elements of the sequence s equal x.
Count(s, x) == Cardinality({i \in 1..Len(s) : s[i] = x})

\* A bucket created from nothing that has since seen only inserts.
OnlyInserts(b) == hist[b].fresh
\* ... and only insert_many, at least once.
OnlyInsertMany(b) == hist[b].fresh /\ hist[b].ops = {"insert_many"}

\* C1: after insert_many of E into a freshly created bucket, get_events with
\* no time bounds and any limit <= 0 returns exactly reverse(E).
C1_UnlimitedReturnsReverse ==
    \A b \in scope.ids : OnlyInsertMany(b) =>
        \A limit \in NoLimits :
            LET r == get_events(backend, store, b, limit, None, None)
            IN  r.err = "" /\ AsEvents(r.val) = Reverse(hist[b].ins)

\* C2: after inserting E, get_events(limit = k) with 0 < k < len(E) and no
\* time bounds returns the k most recently inserted events, most recent
\* first.
C2_LimitReturnsLatest ==
    \A b \in scope.ids : OnlyInserts(b) =>
        \A k \in 1..(Len(hist[b].ins) - 1) :
            LET r == get_events(backend, store, b, k, None, None)
            IN  r.err = "" /\ AsEvents(r.val) = SubSeq(Reverse(hist[b].ins), 1, k)

\* C3: with a positive limit and time bounds the limit is applied after the
\* time filter: the result is the most recent `limit` of the events strictly
\* within the bounds, so it has min(limit, number of matching events)
\* elements.  Stated for the events that inserts stored, in any order.
C3_LimitAfterFilter ==
    \A b \in scope.ids : (backend \in Filtering /\ OnlyInserts(b)) =>
        \A limit \in Limits, starttime \in Bounds, endtime \in Bounds :
            (starttime # None \/ endtime # None) =>
                LET r == get_events(backend, store, b, limit, starttime, endtime)
                    In(e) == Within(e, starttime, endtime)
                    matching == SelectSeq(hist[b].ins, In)
                    got == AsEvents(r.val)
                IN  /\ r.err = ""
                    /\ Len(got) = Min(limit, Len(matching))
                    /\ \A i \in 1..Len(got) : In(got[i])
                    /\ \A e \in Events :
                           Count(got, e) < Count(matching, e) =>
                               \A i \in 1..Len(got) : got[i].timestamp.t >= e.timestamp.t

\* C4: a strategy that filters does so strictly on both bounds: whatever is
\* returned lies strictly within the bounds that are given; with no bound
\* and no limit nothing is left out; and of events stored by inserts, an
\* unlimited query returns exactly those strictly within its bounds (of
\* events at t1 < t2 < t3, starttime = t1 and endtime = t3 leave the one at
\* t2).
C4_StrictBounds ==
    \A b \in scope.ids : (backend \in Filtering /\ Exists(store, b)) =>
        \A limit \in NoLimits \cup Limits, starttime \in Bounds, endtime \in Bounds :
            LET r == get_events(backend, store, b, limit, starttime, endtime)
                In(e) == Within(e, starttime, endtime)
                got == AsEvents(r.val)
            IN  r.err = "" =>
                  /\ \A i \in 1..Len(got) : In(got[i])
                  /\ (limit <= 0 /\ starttime = None /\ endtime = None) =>
                         \A e \in Events : Count(got, e) = Count(StoredEvents(store, b), e)
                  /\ (limit <= 0 /\ OnlyInserts(b)) =>
                         \A e \in Events :
                             Count(got, e) = IF In(e) THEN Count(hist[b].ins, e) ELSE 0

\* A filtering strategy holds events at 1, 2 and 3, put there by inserts, and
\* get_events(starttime = 1, endtime = 3) returns the one at 2 alone.
C4_Witness ==
    \E b \in scope.ids :
        /\ backend \in Filtering /\ OnlyInserts(b)
        /\ {hist[b].ins[i].timestamp.t : i \in 1..Len(hist[b].ins)} = {1, 2, 3}
        /\ LET r == get_events(backend, store, b, 0, 1, 3)
           IN  r.err = "" /\ Len(r.val) = 1 /\ r.val[1].timestamp.t = 2

\* C5: after any inserts, in whatever order of timestamps, get_events returns
\* events in reverse-chronological order: timestamps never increase from one
\* element to the next.
C5_ReverseChronological ==
    \A b \in scope.ids : OnlyInserts(b) =>
        \A limit \in NoLimits \cup Limits :
            LET r == get_events(backend, store, b, limit, None, None)
            IN  r.err = "" =>
                    \A i \in 1..(Len(r.val) - 1) :
                        r.val[i].timestamp.t >= r.val[i + 1].timestamp.t

\* C6: on a bucket that is not empty, replace_last(e) ends as "delete the most
\* recent event, insert e" does: the event get_events(limit = 1) returned
\* before the call is the one that went, e is what get_events(limit = 1)
\* returns now, every other event is as it was, and as many events are held.
C6_ReplaceLastIsDeleteInsert ==
    \A b \in scope.ids, e \in EventsOf(scope) :
        LET g == get_events(backend, store, b, 1, None, None)
        IN  (g.err = "" /\ g.val # <<>>) =>
                LET old == AsEvent(g.val[1])
                    r == replace_last(backend, store, b, e)
                    before == StoredEvents(store, b)
                    after == StoredEvents(r.store, b)
                    g2 == get_events(backend, r.store, b, 1, None, None)
                IN  /\ r.err = ""
                    /\ Len(after) = Len(before)
                    /\ \A x \in Events :
                           Count(after, x) + (IF x = old THEN 1 ELSE 0)
                               = Count(before, x) + (IF x = e THEN 1 ELSE 0)
                    /\ g2.err = "" /\ g2.val # <<>> /\ AsEvent(g2.val[1]) = e

\* C9: create_bucket on an id that is present fails with BucketExistsError and
\* leaves the bucket's metadata (its `created` too) and its events as they
\* were.
C9_CreateExistingFails ==
    \A b \in scope.ids : b \in DOMAIN store.meta =>
        \A created \in scope.created, name \in scope.names :
            LET r == create_bucket(backend, store, b, "type", "client", "host", created, name)
            IN  /\ r.err = "BucketExistsError"
                /\ r.store.meta = store.meta
                /\ r.store.events = store.events

\* The buckets with a metadata record, and those with an event sequence.  The
\* file and MongoDB strategies keep nothing for an empty sequence: there a
\* bucket with metadata has one.
WithMetadata(s) == DOMAIN s.meta
WithEvents(B, s) ==
    IF B \in {"File", "MongoDB"} THEN DOMAIN s.events \cup DOMAIN s.meta ELSE DOMAIN s.events

\* C10: in every state reached by create_bucket, delete_bucket, insert_one,
\* insert_many and replace_last, on ids created or not, the ids with a
\* metadata record are the ids with an event sequence.
C10_MetadataIffEvents == WithMetadata(store) = WithEvents(backend, store)

\* C7: replace_last is atomic to a reader of the bucket: a get_events at any
\* point of a replace_last on a bucket that held n >= 1 events returns
\* exactly n events.
C7_ReaderSeesAllEvents ==
    \A t \in Threads : (pc[t].op = "replace_last" /\ pc[t].n >= 1) =>
        LET r == get_events(backend, store, pc[t].bucket, -1, None, None)
        IN  r.err = "" /\ Len(r.val) = pc[t].n

\* The bucket's events after the calls insert_one (of the first k events of
\* seen), replace_last, insert_one (of the rest), one after the other.
SerialOutcome(B, p, k) ==
    LET s1 == StorageStrategy_insert_many(B, p.start, p.bucket, SubSeq(p.seen, 1, k)).store
        s2 == replace_last(B, s1, p.bucket, p.event).store
        s3 == StorageStrategy_insert_many(B, s2, p.bucket,
                                          SubSeq(p.seen, k + 1, Len(p.seen))).store
    IN  StoredEvents(s3, p.bucket)

\* C8: calls that change one bucket are serialized.  When a replace_last ends
\* that began on a bucket with events and ran alongside insert_one calls on
\* that bucket, the bucket holds what the calls leave in some order one after
\* the other; an event whose insert_one returned is not lost.
C8_Serialized ==
    [][\A t \in Threads :
          (pc[t].op = "replace_last" /\ pc[t].n >= 1 /\ pc[t].tracked /\ IsIdle(pc'[t])) =>
              \E k \in 0..Len(pc[t].seen) :
                  StoredEvents(store', pc[t].bucket) = SerialOutcome(backend, pc[t], k)]_vars

\* C11: get_events on a bucket id of which nothing exists (never created, or
\* deleted) fails; it does not return a list, empty or not.
C11_MissingBucketFails ==
    \A b \in scope.ids : ~Exists(store, b) =>
        \A limit \in NoLimits \cup Limits :
            get_events(backend, store, b, limit, None, None).err # ""

\* C12: delete_bucket(id) followed by get_metadata(id) fails with
\* BucketNotFoundError, and id is no longer a key of buckets().
C12_DeletedBucketNotFound ==
    \A b \in scope.ids : Exists(store, b) =>
        LET d == delete_bucket(backend, store, b)
            g == get_metadata(backend, d.store, b)
            bs == buckets(backend, d.store)
        IN  d.err = "" =>
                /\ g.err = "BucketNotFoundError"
                /\ bs.err = "" /\ b \notin DOMAIN bs.val

\* A bucket that exists and holds no events: created, nothing stored in it.
IsEmptyBucket(s, b) ==
    /\ b \in DOMAIN s.meta
    /\ b \in DOMAIN s.events => s.events[b] = <<>>

\* C13: replace_last on a bucket that exists and holds no events fails with
\* BucketNotFoundError and leaves the bucket as it was to its callers: still
\* listed with its metadata, get_events still an empty sequence.
C13_ReplaceLastOnEmptyFails ==
    \A b \in scope.ids, e \in EventsOf(scope) : IsEmptyBucket(store, b) =>
        LET r == replace_last(backend, store, b, e)
            g == get_events(backend, r.store, b, 0, None, None)
        IN  /\ r.err = "BucketNotFoundError"
            /\ buckets(backend, r.store).val = buckets(backend, store).val
            /\ g.err = "" /\ g.val = <<>>

\* C14: insert_many(id, E) leaves the bucket as insert_one(id, e) for each e
\* of E in order does, the empty E included: get_events then succeeds and
\* returns the same sequence after the one as after the other.
C14_InsertManyIsInsertOnes ==
    \A b \in scope.ids, E \in Batches(scope) :
        (b \in DOMAIN store.meta /\ get_events(backend, store, b, 0, None, None).err = "") =>
            LET many == insert_many(backend, store, b, E)
                ones == StorageStrategy_insert_many(backend, store, b, E)
            IN  /\ many.err = "" /\ ones.err = ""
                /\ \A limit \in NoLimits \cup Limits :
                       LET m == get_events(backend, many.store, b, limit, None, None)
                           o == get_events(backend, ones.store, b, limit, None, None)
                       IN  m.err = "" /\ o.err = "" /\ m.val = o.val

\* C15: a delete_bucket of the MongoDB strategy that is cut short between its
\* statements, on a bucket that held events, leaves the bucket as it was,
\* or gone, or its events without metadata; it does not leave the metadata
\* record with the events gone.
C15_NoMetadataWithoutEvents ==
    \A t \in Threads : (pc[t].op = "delete_bucket" /\ pc[t].n >= 1) =>
        ~(pc[t].bucket \in DOMAIN store.meta /\ pc[t].bucket \notin DOMAIN store.events)

C19_BoundsNotSupported ==
    \A b \in scope.ids : (backend \in NotFiltering /\ b \in DOMAIN store.meta) =>
        \A limit \in NoLimits \cup Limits, starttime \in Bounds, endtime \in Bounds :
            (starttime # None \/ endtime # None) =>
                get_events(backend, store, b, limit, starttime, endtime)
                    = Raises("NotImplementedError", store)

\* A bucket of the memory or file strategy holds events, and get_events with
\* an endtime alone raises, as it does with a starttime alone.
C19_Witness ==
    \E b \in scope.ids :
        /\ backend \in NotFiltering /\ b \in DOMAIN store.meta
        /\ Len(StoredEvents(store, b)) >= 2
        /\ get_events(backend, store, b, 1, None, MaxTime).err = "NotImplementedError"
        /\ get_events(backend, store, b, 0, 1, None).err = "NotImplementedError"

\* Bucket b is in store r what it is in store s: its metadata and its events.
SameBucket(s, r, b) ==
    /\ b \in DOMAIN r.meta <=> b \in DOMAIN s.meta
    /\ b \in DOMAIN s.meta /\ b \in DOMAIN r.meta => r.meta[b] = s.meta[b]
    /\ b \in DOMAIN r.events <=> b \in DOMAIN s.events
    /\ b \in DOMAIN s.events /\ b \in DOMAIN r.events => r.events[b] = s.events[b]

\* C20: buckets are isolated: for distinct ids A and B, create_bucket,
\* insert_one, insert_many, replace_last and delete_bucket applied to A,
\* returning or raising, leave B's metadata and B's events as they were.
C20_BucketsIsolated ==
    \A A \in scope.ids : \A B \in scope.ids \ {A} :
        /\ \A created \in scope.created, name \in scope.names :
               SameBucket(store, create_bucket(backend, store, A, "type", "client",
                                               "host", created, name).store, B)
        /\ \A e \in EventsOf(scope) :
               /\ SameBucket(store, insert_one(backend, store, A, e).store, B)
               /\ SameBucket(store, replace_last(backend, store, A, e).store, B)
        /\ \A E \in Batches(scope) :
               SameBucket(store, insert_many(backend, store, A, E).store, B)
        /\ SameBucket(store, delete_bucket(backend, store, A).store, B)

\* Two buckets hold events; delete_bucket of the one removes it and leaves
\* the other, metadata and events, as it was.
C20_Witness ==
    \E A \in scope.ids : \E B \in scope.ids \ {A} :
        /\ Len(StoredEvents(store, A)) >= 1 /\ Len(StoredEvents(store, B)) >= 1
        /\ A \in DOMAIN store.meta /\ B \in DOMAIN store.meta
        /\ LET d == delete_bucket(backend, store, A)
           IN  d.err = "" /\ ~Exists(d.store, A) /\ SameBucket(store, d.store, B)

\* The composite key of an event by the reference: of the keys asked for,
\* those the event's payload has, in the caller's order, each by its value.
ReferenceKey(e, keys) ==
    LET Present(k) == k \in DOMAIN e.data
        present == SelectSeq(keys, Present)
    IN  [i \in 1..Len(present) |-> e.data[present[i]]]

\* The sum of the durations of the events of es at the positions in at.
RECURSIVE TotalDuration(_, _)
TotalDuration(es, at) ==
    IF at = {} THEN 0
    ELSE LET i == CHOOSE x \in at : TRUE
         IN  es[i].duration + TotalDuration(es, at \ {i})

C17_MergeAgainKeepsCount ==
    merge.step = "merged again" => Len(merge.again) = Len(merge.result)

\* Events with different keys present were merged into one the first time,
\* and the second merge returned as many events as the first.
C17_Witness ==
    /\ merge.step = "merged again" /\ merge.keys # <<>>
    /\ Len(merge.result) < Len(merge.events)
    /\ \E i, j \in 1..Len(merge.events) :
           /\ DOMAIN merge.events[i].data # DOMAIN merge.events[j].data
           /\ composite_key(merge.events[i], merge.keys)
                  = composite_key(merge.events[j], merge.keys)
    /\ Len(merge.again) = Len(merge.result)

====
